---- MODULE Spec2Model ----
(***************************************************************************)
(* Hall ticket system (src/alsu.py): the CSV-backed record store, the QR    *)
(* payload codec, the lookup workflow and the renderer's subject            *)
(* normalization.                                                           *)
(*                                                                          *)
(* Text is a sequence of one-character strings, so that parsing, formatting *)
(* and splitting are computed character by character.  A value held in a    *)
(* DataFrame cell or passed to a function is tagged with its Python type:   *)
(* Str(text) or Num(integer).  The backing file holds text only.            *)
(***************************************************************************)
EXTENDS Integers, Sequences, FiniteSets, TLC

VARIABLES
  file,   \* assets/student_database.csv: [exists, cols, rows of text cells]
  docs,   \* names of the rendered PDF files present in TEMP_DIR
  last,   \* the last operation: its inputs, the state it started from, its outcome
  issued, \* the hall ticket ids drawn from uuid4 so far
  inp,    \* input of a pure function under check
  out     \* its result

vars == <<file, docs, last, issued, inp, out>>

(***************************************************************************)
(* Text and Python values                                                   *)
(***************************************************************************)
DigitChars == <<"0", "1", "2", "3", "4", "5", "6", "7", "8", "9">>

IsDigit(c) == \E i \in DOMAIN DigitChars : DigitChars[i] = c

DigitVal(c) == (CHOOSE i \in DOMAIN DigitChars : DigitChars[i] = c) - 1

\* A cell that pandas' type inference reads as an integer.
LooksInt(t) == Len(t) > 0 /\ \A i \in 1..Len(t) : IsDigit(t[i])

RECURSIVE ParseInt(_)
ParseInt(t) ==
  IF t = <<>> THEN 0
  ELSE ParseInt(SubSeq(t, 1, Len(t) - 1)) * 10 + DigitVal(t[Len(t)])

RECURSIVE IntToText(_)
IntToText(n) ==
  IF n < 10 THEN <<DigitChars[n + 1]>>
  ELSE IntToText(n \div 10) \o <<DigitChars[(n % 10) + 1]>>

Str(t) == [k |-> "str", v |-> t]
Num(n) == [k |-> "int", v |-> n]

\* Python ==: a str never equals an int.
PyEq(a, b) == a.k = b.k /\ a.v = b.v

\* str(x), as used by f-strings and by DataFrame.to_csv.
PyStr(a) == IF a.k = "int" THEN IntToText(a.v) ELSE a.v

RECURSIVE Join(_, _)
\* sep.join(parts)
Join(parts, sep) ==
  IF parts = <<>> THEN <<>>
  ELSE IF Len(parts) = 1 THEN parts[1]
  ELSE parts[1] \o sep \o Join(Tail(parts), sep)

Count(t, c) == Cardinality({i \in 1..Len(t) : t[i] = c})

RECURSIVE Split(_, _)
\* t.split(c): cut at every occurrence of the character c.
Split(t, c) ==
  IF \A i \in 1..Len(t) : t[i] # c THEN <<t>>
  ELSE LET i == CHOOSE j \in 1..Len(t) :
                  t[j] = c /\ \A m \in 1..(j - 1) : t[m] # c
       IN  <<SubSeq(t, 1, i - 1)>> \o Split(SubSeq(t, i + 1, Len(t)), c)

(***************************************************************************)
(* Code Encoder and the lookup workflow's decoding                          *)
(***************************************************************************)
Colon == ":"

\* Mutant: the two fields written in the other order.
create_scannable_qr_data_swapped(hall_ticket_id, student_roll_number) ==
  PyStr(student_roll_number) \o <<Colon>> \o PyStr(hall_ticket_id)

create_scannable_qr_data(hall_ticket_id, student_roll_number) ==
  PyStr(hall_ticket_id) \o <<Colon>> \o PyStr(student_roll_number)

\* Mutant: qr_data.split(":", 1), cutting at the first colon only.
parse_qr_data_first_colon(qr_data, hall_ticket_id, roll_number) ==
  IF qr_data = <<>> \/ Count(qr_data, Colon) = 0
  THEN [hall_ticket_id |-> hall_ticket_id, roll_number |-> roll_number,
        valid |-> FALSE,
        errors |-> IF qr_data = <<>> THEN <<>> ELSE <<"Invalid QR code data">>]
  ELSE LET parts == Split(qr_data, Colon)
       IN  [hall_ticket_id |-> parts[1],
            roll_number |-> Join(Tail(parts), <<Colon>>),
            valid |-> TRUE, errors |-> <<>>]

\* Lines 347-353: the form's two fields, overwritten by the parts of qr_data
\* when unpacking qr_data.split(":") into two names succeeds.
parse_qr_data(qr_data, hall_ticket_id, roll_number) ==
  IF qr_data = <<>>
  THEN [hall_ticket_id |-> hall_ticket_id, roll_number |-> roll_number,
        valid |-> FALSE, errors |-> <<>>]
  ELSE LET parts == Split(qr_data, Colon)
       IN  IF Len(parts) = 2
           THEN [hall_ticket_id |-> parts[1], roll_number |-> parts[2],
                 valid |-> TRUE, errors |-> <<>>]
           ELSE [hall_ticket_id |-> hall_ticket_id, roll_number |-> roll_number,
                 valid |-> FALSE, errors |-> <<"Invalid QR code data">>]

(***************************************************************************)
(* Python literals: repr() as written into the subjects cell, and           *)
(* ast.literal_eval as applied to it by the renderer.  A value is           *)
(* [kind |-> "str", v], [kind |-> "int", v], [kind |-> "list", items],       *)
(* [kind |-> "tuple", items] or [kind |-> "dict", pairs].                    *)
(***************************************************************************)
PStr(t) == [kind |-> "str", v |-> t]
PInt(n) == [kind |-> "int", v |-> n]
PList(items) == [kind |-> "list", items |-> items]
PTuple(items) == [kind |-> "tuple", items |-> items]
PDict(pairs) == [kind |-> "dict", pairs |-> pairs]

Quote == "'"

RECURSIVE PyRepr(_)
\* repr(v) for text without quotes, backslashes or control characters.
PyRepr(v) ==
  IF v.kind = "str" THEN <<Quote>> \o v.v \o <<Quote>>
  ELSE IF v.kind = "int" THEN IntToText(v.v)
  ELSE IF v.kind = "dict"
  THEN <<"{">>
       \o Join([i \in 1..Len(v.pairs) |->
                  PyRepr(v.pairs[i].key) \o <<Colon, " ">> \o PyRepr(v.pairs[i].val)],
               <<",", " ">>)
       \o <<"}">>
  ELSE <<"[">>
       \o Join([i \in 1..Len(v.items) |-> PyRepr(v.items[i])], <<",", " ">>)
       \o <<"]">>

ParseFail == [ok |-> FALSE]

\* The first position from i on that holds no blank.
RECURSIVE SkipBlanks(_, _)
SkipBlanks(s, i) ==
  IF i <= Len(s) /\ s[i] = " " THEN SkipBlanks(s, i + 1) ELSE i

\* The first position from i on that holds no digit.
RECURSIVE SkipDigits(_, _)
SkipDigits(s, i) ==
  IF i <= Len(s) /\ IsDigit(s[i]) THEN SkipDigits(s, i + 1) ELSE i

EndOfText == "end of text"

AtClose(s, i, close) ==
  IF close = EndOfText THEN i > Len(s) ELSE i <= Len(s) /\ s[i] = close

\* A str or int literal at position i, which holds no blank: [ok, val, next].
ParseScalarAt(s, i) ==
  IF i > Len(s) THEN ParseFail
  ELSE IF s[i] = Quote
  THEN IF \E j \in (i + 1)..Len(s) : s[j] = Quote
       THEN LET j == CHOOSE m \in (i + 1)..Len(s) :
                       s[m] = Quote /\ \A q \in (i + 1)..(m - 1) : s[q] # Quote
            IN  [ok |-> TRUE, val |-> PStr(SubSeq(s, i + 1, j - 1)), next |-> j + 1]
       ELSE ParseFail
  ELSE IF IsDigit(s[i])
  THEN LET j == SkipDigits(s, i)
           digits == SubSeq(s, i, j - 1)
       IN  IF Len(digits) > 1 /\ digits[1] = "0" /\ ParseInt(digits) # 0
           THEN ParseFail
           ELSE [ok |-> TRUE, val |-> PInt(ParseInt(digits)), next |-> j]
  ELSE ParseFail   \* a name or any other character: not a literal

ParseScalar(s, i0) == ParseScalarAt(s, SkipBlanks(s, i0))

RECURSIVE ParsePairs(_, _, _)
\* After a key: value pair, at position j: the closing brace, or a comma
\* and the pairs that follow.
ParsePairsNext(s, j, acc) ==
  IF AtClose(s, j, "}") THEN [ok |-> TRUE, pairs |-> acc, next |-> j + 1]
  ELSE IF j <= Len(s) /\ s[j] = "," THEN ParsePairs(s, j + 1, acc)
  ELSE ParseFail

ParsePairsVal(s, key, val, acc) ==
  IF ~val.ok THEN ParseFail
  ELSE ParsePairsNext(s, SkipBlanks(s, val.next),
                      Append(acc, [key |-> key.val, val |-> val.val]))

ParsePairsColon(s, key, c, acc) ==
  IF c <= Len(s) /\ s[c] = Colon
  THEN ParsePairsVal(s, key, ParseScalar(s, c + 1), acc)
  ELSE ParseFail

ParsePairsKey(s, key, acc) ==
  IF ~key.ok THEN ParseFail
  ELSE ParsePairsColon(s, key, SkipBlanks(s, key.next), acc)

ParsePairsAt(s, i, acc) ==
  IF AtClose(s, i, "}") THEN [ok |-> TRUE, pairs |-> acc, next |-> i + 1]
  ELSE ParsePairsKey(s, ParseScalar(s, i), acc)

\* key: value pairs of scalars up to the closing brace: [ok, pairs, next].
ParsePairs(s, i0, acc) == ParsePairsAt(s, SkipBlanks(s, i0), acc)

DictResult(r) ==
  IF r.ok THEN [ok |-> TRUE, val |-> PDict(r.pairs), next |-> r.next] ELSE ParseFail

ParseElementAt(s, i) ==
  IF i <= Len(s) /\ s[i] = "{" THEN DictResult(ParsePairs(s, i + 1, <<>>))
  ELSE ParseScalarAt(s, i)

\* A scalar or a dict of scalars.
ParseElement(s, i0) == ParseElementAt(s, SkipBlanks(s, i0))

RECURSIVE ParseItems(_, _, _)
\* After an element, at position j: the closing bracket, or a comma and the
\* elements that follow.
ParseItemsNext(s, j, acc) ==
  IF AtClose(s, j, "]") THEN [ok |-> TRUE, items |-> acc, next |-> j + 1]
  ELSE IF j <= Len(s) /\ s[j] = "," THEN ParseItems(s, j + 1, acc)
  ELSE ParseFail

ParseItemsElement(s, a, acc) ==
  IF ~a.ok THEN ParseFail
  ELSE ParseItemsNext(s, SkipBlanks(s, a.next), Append(acc, a.val))

ParseItemsAt(s, i, acc) ==
  IF AtClose(s, i, "]") THEN [ok |-> TRUE, items |-> acc, next |-> i + 1]
  ELSE ParseItemsElement(s, ParseElementAt(s, i), acc)

\* Comma-separated elements up to the closing bracket: [ok, items, next].
ParseItems(s, i0, acc) == ParseItemsAt(s, SkipBlanks(s, i0), acc)

ListResult(r) ==
  IF r.ok THEN [ok |-> TRUE, val |-> PList(r.items), next |-> r.next] ELSE ParseFail

ParseAtomAt(s, i) ==
  IF i <= Len(s) /\ s[i] = "[" THEN ListResult(ParseItems(s, i + 1, <<>>))
  ELSE ParseElementAt(s, i)

\* One literal: a scalar, a dict of scalars, or a list of those (the
\* nesting that a subjects cell has).
ParseAtom(s, i0) == ParseAtomAt(s, SkipBlanks(s, i0))

RECURSIVE ParseTuple(_, _, _)
\* After a literal of an unparenthesized tuple, at position j: the end of
\* the text, or a comma and the literals that follow.
ParseTupleNext(s, j, acc) ==
  IF AtClose(s, j, EndOfText) THEN [ok |-> TRUE, items |-> acc]
  ELSE IF s[j] = "," THEN ParseTuple(s, j + 1, acc)
  ELSE ParseFail

ParseTupleAtom(s, a, acc) ==
  IF ~a.ok THEN ParseFail
  ELSE ParseTupleNext(s, SkipBlanks(s, a.next), Append(acc, a.val))

ParseTupleAt(s, i, acc) ==
  IF AtClose(s, i, EndOfText) THEN [ok |-> TRUE, items |-> acc]
  ELSE ParseTupleAtom(s, ParseAtomAt(s, i), acc)

\* The literals after the first comma of a tuple: [ok, items].
ParseTuple(s, i0, acc) == ParseTupleAt(s, SkipBlanks(s, i0), acc)

TupleResult(r) ==
  IF r.ok THEN [ok |-> TRUE, val |-> PTuple(r.items)] ELSE ParseFail

literal_eval_after(s, a, j) ==
  IF j > Len(s) THEN [ok |-> TRUE, val |-> a.val]
  ELSE IF s[j] = "," THEN TupleResult(ParseTuple(s, j + 1, <<a.val>>))
  ELSE ParseFail

literal_eval_first(s, a) ==
  IF ~a.ok THEN ParseFail ELSE literal_eval_after(s, a, SkipBlanks(s, a.next))

\* ast.literal_eval(s): [ok, val]; ok is FALSE where Python raises.
literal_eval(s) == literal_eval_first(s, ParseAtom(s, 1))

RECURSIVE Strip(_)
\* s.strip() for blanks
Strip(t) ==
  IF t # <<>> /\ t[1] = " " THEN Strip(Tail(t))
  ELSE IF t # <<>> /\ t[Len(t)] = " " THEN Strip(SubSeq(t, 1, Len(t) - 1))
  ELSE t

(***************************************************************************)
(* Credential Renderer: subject normalization (lines 226-236) and what the  *)
(* drawing loop takes each entry to be (lines 254-274)                      *)
(***************************************************************************)
\* dict.get(key, '')
DictGet(d, key) ==
  IF \E i \in 1..Len(d.pairs) : d.pairs[i].key = PStr(key)
  THEN LET i == CHOOSE m \in 1..Len(d.pairs) :
                  d.pairs[m].key = PStr(key)
                    /\ \A q \in (m + 1)..Len(d.pairs) : d.pairs[q].key # PStr(key)
       IN  d.pairs[i].val
  ELSE PStr(<<>>)

\* [s.strip() for s in subjects.split(',') if s.strip()]
SplitCommas(t) ==
  LET parts == Split(t, ",")
      stripped == [i \in 1..Len(parts) |-> Strip(parts[i])]
      nonempty(x) == x # <<>>
      kept == SelectSeq(stripped, nonempty)
  IN  [i \in 1..Len(kept) |-> PStr(kept[i])]

\* The except branch of line 232 where literal_eval raised.
eval_or_split(ev, text) == IF ev.ok THEN ev.val ELSE PList(SplitCommas(text))

\* The object bound to `subjects` when line 236 is reached.
normalize_subjects(subjects) ==
  IF subjects.kind = "str"
  THEN eval_or_split(literal_eval(subjects.v), subjects.v)
  ELSE subjects

\* A drawn subject: a {code, name, date} row for a dict, else str(subject)
\* in the name column.
SubjectEntry(subject) ==
  IF subject.kind = "dict"
  THEN [row |-> "dict", code |-> DictGet(subject, <<"c", "o", "d", "e">>),
        name |-> DictGet(subject, <<"n", "a", "m", "e">>),
        date |-> DictGet(subject, <<"d", "a", "t", "e">>)]
  ELSE [row |-> "bare",
        text |-> IF subject.kind = "str" THEN subject.v ELSE PyRepr(subject)]

\* `if not subjects` and `for subject in subjects` over the normalized
\* object: the entries the loop visits, or the TypeError that makes the
\* render return None.
iterate_subjects(v) ==
  IF v.kind \in {"list", "tuple"}
  THEN [ok |-> TRUE, entries |-> [i \in 1..Len(v.items) |-> SubjectEntry(v.items[i])]]
  ELSE IF v.kind = "str"
  THEN [ok |-> TRUE, entries |-> [i \in 1..Len(v.v) |-> SubjectEntry(PStr(<<v.v[i]>>))]]
  ELSE IF v.kind = "dict"
  THEN [ok |-> TRUE,
        entries |-> [i \in 1..Len(v.pairs) |-> SubjectEntry(v.pairs[i].key)]]
  ELSE IF v.v = 0 THEN [ok |-> TRUE, entries |-> <<>>]
  ELSE [ok |-> FALSE, entries |-> <<>>]

subject_entries(subjects) == iterate_subjects(normalize_subjects(subjects))

(***************************************************************************)
(* Bounded input sets                                                       *)
(***************************************************************************)
\* Roll numbers typed into the form: alphanumeric and digit-only.
Rolls == {<<"R", "1">>, <<"7">>}

\* str(uuid.uuid4())[:8].upper(): eight characters of 0-9A-F.
Tickets == {<<"A", "B", "1", "2", "C", "D", "3", "4">>,
            <<"1", "2", "3", "4", "5", "6", "7", "8">>}

Names == {<<"A">>, <<"B">>}

\* The I/O step that fails during one operation, if any: reading the
\* backing file, writing it, or removing a document file.
NoFail == [read |-> FALSE, write |-> FALSE, remove |-> FALSE]

ReadFails == [read |-> TRUE, write |-> FALSE, remove |-> FALSE]

WriteFails == [read |-> FALSE, write |-> TRUE, remove |-> FALSE]

RemoveFails == [read |-> FALSE, write |-> FALSE, remove |-> TRUE]

(***************************************************************************)
(* Record Store                                                             *)
(***************************************************************************)
COLUMNS == <<"id", "name", "roll_number", "program", "semester",
             "exam_date", "seat_number", "hall_ticket_id", "subjects">>

\* A row carries the cells of name, roll_number and hall_ticket_id; "name"
\* stands for the columns that the store only copies.

Absent == [exists |-> FALSE, cols |-> <<>>, rows |-> <<>>]

EmptyDF == [cols |-> COLUMNS, rows |-> <<>>]

\* pd.read_csv: a column whose cells all look like integers becomes int64,
\* any other column holds str; a frame without rows has object columns.
read_csv(f) ==
  LET n == Len(f.rows)
      numeric(c) == n > 0 /\ \A i \in 1..n : LooksInt(f.rows[i][c])
      nName == numeric("name")
      nRoll == numeric("roll_number")
      nTick == numeric("hall_ticket_id")
      cell(isnum, t) == IF isnum THEN Num(ParseInt(t)) ELSE Str(t)
  IN  [cols |-> f.cols,
       rows |-> [i \in 1..n |->
                  [name |-> cell(nName, f.rows[i].name),
                   roll_number |-> cell(nRoll, f.rows[i].roll_number),
                   hall_ticket_id |-> cell(nTick, f.rows[i].hall_ticket_id)]]]

\* DataFrame.to_csv(db_path, index=False): every cell written as str(value).
to_csv(df) ==
  [exists |-> TRUE, cols |-> df.cols,
   rows |-> [i \in 1..Len(df.rows) |->
              [name |-> PyStr(df.rows[i].name),
               roll_number |-> PyStr(df.rows[i].roll_number),
               hall_ticket_id |-> PyStr(df.rows[i].hall_ticket_id)]]]

\* Mutant: an absent backing file is reported empty but never created.
load_database_no_create(f, io) ==
  IF f.exists /\ ~io.read
  THEN [file |-> f, df |-> read_csv(f), raised |-> FALSE, errors |-> <<>>]
  ELSE [file |-> f, df |-> EmptyDF, raised |-> FALSE,
        errors |-> IF f.exists \/ io.write THEN <<"Error loading database">>
                   ELSE <<>>]

load_database(f, io) ==
  IF f.exists
  THEN IF io.read
       THEN [file |-> f, df |-> EmptyDF, raised |-> FALSE,
             errors |-> <<"Error loading database">>]
       ELSE [file |-> f, df |-> read_csv(f), raised |-> FALSE, errors |-> <<>>]
  ELSE IF io.write
       THEN [file |-> f, df |-> EmptyDF, raised |-> FALSE,
             errors |-> <<"Error loading database">>]
       ELSE [file |-> to_csv(EmptyDF), df |-> EmptyDF, raised |-> FALSE,
             errors |-> <<>>]

save_to_database(f, student_data, io) ==
  LET ld == load_database(f, io)
      df == ld.df
      same(r) == PyEq(r.roll_number, student_data.roll_number)
      differs(r) == ~same(r)
      found == \E i \in 1..Len(df.rows) : same(df.rows[i])
      kept == IF found THEN SelectSeq(df.rows, differs) ELSE df.rows
      new == [cols |-> df.cols, rows |-> Append(kept, student_data)]
  IN  IF io.write
      THEN [file |-> ld.file, ret |-> FALSE, raised |-> FALSE,
            errors |-> ld.errors \o <<"Error saving to database">>]
      ELSE [file |-> to_csv(new), ret |-> TRUE, raised |-> FALSE,
            errors |-> ld.errors]

\* f"hall_ticket_{roll_number}_{hall_ticket_id}.pdf", without the constant
\* prefix and suffix.
PdfName(roll_number, hall_ticket_id) ==
  PyStr(roll_number) \o <<"_">> \o PyStr(hall_ticket_id)

delete_from_database(f, d, roll_number, hall_ticket_id, io) ==
  LET ld == load_database(f, io)
      df == ld.df
      keep(r) == ~PyEq(r.roll_number, roll_number)
                   \/ ~PyEq(r.hall_ticket_id, hall_ticket_id)
      new == [cols |-> df.cols, rows |-> SelectSeq(df.rows, keep)]
      pdf_path == PdfName(roll_number, hall_ticket_id)
  IN  IF io.write
      THEN [file |-> ld.file, docs |-> d, ret |-> FALSE, raised |-> FALSE,
            errors |-> ld.errors \o <<"Error deleting record">>]
      ELSE IF pdf_path \in d /\ io.remove
      THEN [file |-> to_csv(new), docs |-> d, ret |-> FALSE, raised |-> FALSE,
            errors |-> ld.errors \o <<"Error deleting record">>]
      ELSE [file |-> to_csv(new), docs |-> d \ {pdf_path}, ret |-> TRUE,
            raised |-> FALSE, errors |-> ld.errors]

(***************************************************************************)
(* Credential Renderer, as far as the store's workflows see it: the         *)
(* document it leaves in TEMP_DIR                                           *)
(***************************************************************************)
generate_hall_ticket_pdf(d, student_data) ==
  LET file_path == PdfName(student_data.roll_number, student_data.hall_ticket_id)
  IN  [docs |-> d \cup {file_path}, path |-> file_path]

(***************************************************************************)
(* Credential Renderer in full (lines 146-326): the page it lays out, the   *)
(* files it leaves in TEMP_DIR and what it reports.  Lengths are in         *)
(* millimetres (1 cm = 10): every length of the layout is a whole number    *)
(* of them.  The code computes in floating point; at the one place where    *)
(* the exact position equals the limit (after the 16th row) the float       *)
(* position is above 6*cm, as it is here.                                   *)
(***************************************************************************)
PageHeight == 297        \* A4

DetailsTop == 55         \* height-5.5*cm

DetailCount == 7         \* the entries of `details`

DetailStep == 7

ExamGap == 12

EmptyStep == 7

HeaderStep == 5

RuleStep == 4

RowStep == 7

CutOff == 60

InstructionsGap == 15

InstructionCount == 5

InstructionStep == 5

SignatureY == 40

MaxNameShown == 40

KeptChars == 37

Ellipsis == <<".", ".", ".">>

\* Mutant: the name cut at the limit instead of three characters before it.
truncate_subject_name_at_limit(subject_name) ==
  IF Len(subject_name) > MaxNameShown
  THEN SubSeq(subject_name, 1, MaxNameShown) \o Ellipsis
  ELSE subject_name

\* Lines 267-268.
truncate_subject_name(subject_name) ==
  IF Len(subject_name) > MaxNameShown
  THEN SubSeq(subject_name, 1, KeptChars) \o Ellipsis
  ELSE subject_name

\* len(subject_name) on what subject.get('name', '') returned: a TypeError
\* for a number.
DrawableEntry(entry) == entry.row = "dict" => entry.name.kind = "str"

\* What lines 255-274 put on the page for one entry, at height y.
drawn_subject(entry, y) ==
  IF entry.row = "dict"
  THEN [row |-> "dict", y |-> y, code |-> entry.code,
        name |-> truncate_subject_name(entry.name.v), date |-> entry.date]
  ELSE [row |-> "bare", y |-> y, name |-> entry.text]

\* y_position when the subjects section starts (lines 200-224).
SubjectsTop == PageHeight - DetailsTop - DetailCount * DetailStep - ExamGap

\* Mutant: no check of the space left on the page.
below_cut_off_never(y_position) == FALSE

\* Line 279.
below_cut_off(y_position) == y_position < CutOff

RECURSIVE draw_rows(_, _, _, _)
\* The loop of lines 254-280 from entry k on: [ok, rows, y_position].
draw_rows(entries, k, y_position, rows) ==
  IF k > Len(entries) THEN [ok |-> TRUE, rows |-> rows, y_position |-> y_position]
  ELSE IF ~DrawableEntry(entries[k])
  THEN [ok |-> FALSE, rows |-> rows, y_position |-> y_position]
  ELSE IF below_cut_off(y_position - RowStep)
  THEN [ok |-> TRUE, rows |-> Append(rows, drawn_subject(entries[k], y_position)),
        y_position |-> y_position - RowStep]
  ELSE draw_rows(entries, k + 1, y_position - RowStep,
                 Append(rows, drawn_subject(entries[k], y_position)))

\* Lines 241-250 came before the rows: the table has a header, not the
\* placeholder line.
with_header(r) ==
  [ok |-> r.ok, placeholder |-> FALSE, rows |-> r.rows, y_position |-> r.y_position]

\* Lines 236-280 on the normalized subjects: [ok, placeholder, rows,
\* y_position].
draw_subjects_of(it) ==
  IF ~it.ok
  THEN [ok |-> FALSE, placeholder |-> FALSE, rows |-> <<>>, y_position |-> SubjectsTop]
  ELSE IF it.entries = <<>>
  THEN [ok |-> TRUE, placeholder |-> TRUE, rows |-> <<>>,
        y_position |-> SubjectsTop - EmptyStep]
  ELSE with_header(draw_rows(it.entries, 1, SubjectsTop - HeaderStep - RuleStep, <<>>))

draw_subjects(subjects) == draw_subjects_of(subject_entries(subjects))

\* Mutant: the instruction lines a full row apart from the heading and
\* from each other.
instruction_lines_wide(y_position) ==
  [i \in 1..InstructionCount |-> y_position - InstructionsGap - i * InstructionsGap]

\* Lines 294-298: the heights of the five instruction lines.
instruction_lines(y_position) ==
  [i \in 1..InstructionCount |->
     y_position - InstructionsGap - (i - 1) * InstructionStep]

\* f"qr_{roll_number}.png" in TEMP_DIR.
QrName(roll_number) == <<"qr">> \o PyStr(roll_number)

\* What can go wrong inside one render.
RenderOk ==
  [qr_gen |-> FALSE, qr_save |-> FALSE, embed |-> FALSE, pdf_save |-> FALSE,
   remove |-> FALSE]

NoDocument == <<"None">>

\* Mutant: a failed embedding aborts the render.
embed_failure_aborts(fails) == fails.embed

\* Lines 185-193: the inner try keeps a failed drawImage from ending the
\* render.
embed_aborts(fails) == FALSE

\* The page and the return value once the code image is saved (lines
\* 184-326): [docs, path, raised, errors, warnings, page].  The code image
\* is in d.
render_page(d, student_data, fails, sub, qr_path, file_path) ==
  IF embed_aborts(fails) \/ ~sub.ok \/ fails.pdf_save
  THEN [docs |-> d, path |-> NoDocument, raised |-> FALSE,
        errors |-> <<"Error generating PDF">>,
        warnings |-> IF fails.embed THEN <<"Could not add QR code to PDF">> ELSE <<>>,
        page |-> <<>>]
  ELSE [docs |-> (IF fails.remove THEN d ELSE d \ {qr_path}) \cup {file_path},
        path |-> file_path, raised |-> FALSE, errors |-> <<>>,
        warnings |-> IF fails.embed THEN <<"Could not add QR code to PDF">> ELSE <<>>,
        page |-> <<[pages |-> 1, qr |-> ~fails.embed,
                    placeholder |-> sub.placeholder, rows |-> sub.rows,
                    instructions |-> instruction_lines(sub.y_position),
                    signatures |-> SignatureY, footer |-> TRUE]>>]

\* The errors of generate_qr_code (lines 124-127) put before those of the
\* rest of the render.
after_qr_code(qr_errors, r) ==
  [docs |-> r.docs, path |-> r.path, raised |-> r.raised,
   errors |-> qr_errors \o r.errors, warnings |-> r.warnings, page |-> r.page]

\* generate_hall_ticket_pdf(student_data) with the files d in TEMP_DIR.
\* generate_qr_code reports its own failure and hands back a blank image.
render(d, student_data, subjects, fails) ==
  after_qr_code(
    IF fails.qr_gen THEN <<"Error generating QR code">> ELSE <<>>,
    IF fails.qr_save
    THEN [docs |-> d, path |-> NoDocument, raised |-> FALSE,
          errors |-> <<"Error generating PDF">>, warnings |-> <<>>, page |-> <<>>]
    ELSE render_page(d \cup {QrName(student_data.roll_number)}, student_data, fails,
                     draw_subjects(subjects), QrName(student_data.roll_number),
                     PdfName(student_data.roll_number, student_data.hall_ticket_id)))

(***************************************************************************)
(* Interactive Shell: the workflows of main()                               *)
(***************************************************************************)
TextRecord(name, roll_number, hall_ticket_id) ==
  [name |-> name, roll_number |-> roll_number, hall_ticket_id |-> hall_ticket_id]

\* The dict built by the form: every value is a str.
FormRecord(name, roll_number, hall_ticket_id) ==
  [name |-> Str(name), roll_number |-> Str(roll_number),
   hall_ticket_id |-> Str(hall_ticket_id)]

\* str(uuid.uuid4())[:8].upper(): an id that was never drawn before.
FreshTicket(t) == t \notin issued

Init ==
  /\ file = Absent
  /\ docs = {}
  /\ last = [op |-> "init"]
  /\ issued = {}
  /\ inp = <<>>
  /\ out = <<>>

\* "Generate Hall Ticket" submitted: validation, upsert, render.
Generate(name, roll_number, hall_ticket_id, io) ==
  LET student_data == FormRecord(name, roll_number, hall_ticket_id)
      sv == save_to_database(file, student_data, io)
      pdf == generate_hall_ticket_pdf(docs, student_data)
  IN  /\ FreshTicket(hall_ticket_id)
      /\ IF name = <<>> \/ roll_number = <<>>
         THEN /\ last' = [op |-> "rejected",
                          errors |-> <<"Please fill in all the required fields.">>]
              /\ UNCHANGED <<file, docs, issued>>
         ELSE /\ file' = sv.file
              /\ docs' = pdf.docs
              /\ issued' = issued \cup {hall_ticket_id}
              /\ last' = [op |-> "generate",
                          rec |-> TextRecord(name, roll_number, hall_ticket_id),
                          ret |-> sv.ret, raised |-> sv.raised,
                          errors |-> sv.errors, pdf |-> pdf.path]
      /\ UNCHANGED <<inp, out>>

\* "Delete This Hall Ticket" pressed under the result of a generate.  The
\* press reruns the script; in that run the form's submit button reads False,
\* so the block of lines 557-624 that holds the delete button and the call of
\* line 603 is skipped: nothing is deleted and the result is no longer shown.
DeleteGenerated ==
  /\ last.op = "generate"
  /\ last' = [op |-> "delete_generated", roll_number |-> last.rec.roll_number,
              hall_ticket_id |-> last.rec.hall_ticket_id,
              saved |-> last.ret, called |-> FALSE, errors |-> <<>>]
  /\ UNCHANGED <<file, docs, issued, inp, out>>

RECURSIVE RenderAll(_, _)
\* The documents present after rendering every row of the view.
RenderAll(d, rows) ==
  IF rows = <<>> THEN d
  ELSE RenderAll(generate_hall_ticket_pdf(d, rows[1]).docs, Tail(rows))

\* "View Existing Hall Tickets" shown: reload, one document per row.
View(io) ==
  LET ld == load_database(file, io)
  IN  /\ file' = ld.file
      /\ docs' = RenderAll(docs, ld.df.rows)
      /\ last' = [op |-> "load", was_absent |-> ~file.exists, io |-> io,
                  df |-> ld.df, raised |-> ld.raised, errors |-> ld.errors]
      /\ UNCHANGED <<issued, inp, out>>

\* The view's "Delete Hall Ticket" button of row i pressed: the script reruns
\* up to that button, deletes with the row's own values and, on success,
\* reruns once more (the full view refresh).  io is what fails inside
\* delete_from_database and after it.
ViewDelete(i, io) ==
  LET ld == load_database(file, NoFail)
      rows == ld.df.rows
      d1 == RenderAll(docs, SubSeq(rows, 1, i))
      del == delete_from_database(ld.file, d1, rows[i].roll_number,
                                  rows[i].hall_ticket_id, io)
      refreshed == load_database(del.file, io)
  IN  /\ i \in 1..Len(rows)
      /\ file' = del.file
      /\ docs' = IF del.ret
                 THEN RenderAll(del.docs, refreshed.df.rows)
                 ELSE RenderAll(del.docs, SubSeq(rows, i + 1, Len(rows)))
      /\ last' = [op |-> "delete", roll_number |-> rows[i].roll_number,
                  hall_ticket_id |-> rows[i].hall_ticket_id,
                  had_doc |-> TRUE, io |-> io,
                  ret |-> del.ret, raised |-> del.raised, errors |-> del.errors]
      /\ UNCHANGED <<issued, inp, out>>

\* "Download Hall Ticket" submitted (create_qr_download_endpoint).
Lookup(qr_data, form_ticket, form_roll, io) ==
  LET parsed == parse_qr_data(qr_data, form_ticket, form_roll)
      hall_ticket_id == parsed.hall_ticket_id
      roll_number == parsed.roll_number
      ld == load_database(file, io)
      match(r) == PyEq(r.hall_ticket_id, Str(hall_ticket_id))
                    /\ PyEq(r.roll_number, Str(roll_number))
      student == SelectSeq(ld.df.rows, match)
      pdf == generate_hall_ticket_pdf(docs, student[1])
  IN  /\ IF hall_ticket_id = <<>> \/ roll_number = <<>>
         THEN /\ last' = [op |-> "lookup", qr_data |-> qr_data,
                          hall_ticket_id |-> hall_ticket_id,
                          roll_number |-> roll_number, outcome |-> "missing",
                          found |-> <<>>,
                          errors |-> parsed.errors \o <<"Please enter both">>]
              /\ UNCHANGED <<file, docs>>
         ELSE IF student = <<>>
         THEN /\ last' = [op |-> "lookup", qr_data |-> qr_data,
                          hall_ticket_id |-> hall_ticket_id,
                          roll_number |-> roll_number, outcome |-> "notfound",
                          found |-> <<>>,
                          errors |-> parsed.errors \o ld.errors
                                      \o <<"No hall ticket found">>]
              /\ file' = ld.file
              /\ UNCHANGED docs
         ELSE /\ last' = [op |-> "lookup", qr_data |-> qr_data,
                          hall_ticket_id |-> hall_ticket_id,
                          roll_number |-> roll_number, outcome |-> "found",
                          found |-> <<TextRecord(PyStr(student[1].name),
                                                 PyStr(student[1].roll_number),
                                                 PyStr(student[1].hall_ticket_id))>>,
                          errors |-> parsed.errors \o ld.errors]
              /\ file' = ld.file
              /\ docs' = pdf.docs
      /\ UNCHANGED <<issued, inp, out>>

\* What the lookup form receives: a scanned payload, a damaged one, or the
\* two fields typed by hand.
Payloads == {create_scannable_qr_data(Str(t), Str(r)) : t \in Tickets, r \in Rolls}

BadTokens == {<<"A", "B">>, <<"A", Colon, "7", Colon, "7">>}

Next ==
  \/ \E n \in Names \cup {<<>>}, r \in Rolls, t \in Tickets,
        io \in {NoFail, ReadFails, WriteFails} :
       Generate(n, r, t, io)
  \/ DeleteGenerated
  \/ \E io \in {NoFail, ReadFails, WriteFails} : View(io)
  \/ \E i \in 1..Cardinality(Tickets),
        io \in {NoFail, ReadFails, WriteFails, RemoveFails} :
       ViewDelete(i, io)
  \/ \E q \in Payloads \cup BadTokens \cup {<<>>} : Lookup(q, <<>>, <<>>, NoFail)
  \/ \E t \in Tickets, r \in Rolls : Lookup(<<>>, t, r, NoFail)

Spec == Init /\ [][Next]_vars

(***************************************************************************)
(* The codec on its own: encode a pair, then decode the token as the lookup *)
(* workflow does                                                            *)
(***************************************************************************)
MaxCodecLen == 2

CodecChars == {"A", "7", Colon}

CodecTexts == UNION {[1..n -> CodecChars] : n \in 0..MaxCodecLen}

InitCodec ==
  /\ file = Absent
  /\ docs = {}
  /\ last = [op |-> "init"]
  /\ issued = {}
  /\ inp \in [hall_ticket_id : CodecTexts, roll_number : CodecTexts]
  /\ out = [stage |-> "input"]

Encode ==
  /\ out.stage = "input"
  /\ out' = [stage |-> "encoded",
             qr_data |-> create_scannable_qr_data(Str(inp.hall_ticket_id),
                                                  Str(inp.roll_number))]
  /\ UNCHANGED <<file, docs, last, issued, inp>>

Decode ==
  /\ out.stage = "encoded"
  /\ out' = [stage |-> "decoded", qr_data |-> out.qr_data,
             parsed |-> parse_qr_data(out.qr_data, <<>>, <<>>)]
  /\ UNCHANGED <<file, docs, last, issued, inp>>

NextCodec == Encode \/ Decode

SpecCodec == InitCodec /\ [][NextCodec]_vars

(***************************************************************************)
(* The subjects of one record through its renders: the literal list at      *)
(* generation, the serialized text once the row is reloaded; or a plain     *)
(* text typed into the store by hand                                        *)
(***************************************************************************)
MaxSubjects == 2

MaxPlainLen == 3

Subject(code, name, date) ==
  PDict(<<[key |-> PStr(<<"c", "o", "d", "e">>), val |-> PStr(code)],
          [key |-> PStr(<<"n", "a", "m", "e">>), val |-> PStr(name)],
          [key |-> PStr(<<"d", "a", "t", "e">>), val |-> PStr(date)]>>)

SubjectValues ==
  {PStr(<<"a">>), PStr(<<"1">>),
   Subject(<<"a">>, <<"a", ",", " ", "1">>, <<"1">>),
   Subject(<<>>, <<"a">>, <<>>)}

SubjectLists == UNION {[1..n -> SubjectValues] : n \in 0..MaxSubjects}

PlainChars == {"a", "1", ",", " "}

PlainTexts == UNION {[1..n -> PlainChars] : n \in 0..MaxPlainLen}

InitSubjects ==
  /\ file = Absent
  /\ docs = {}
  /\ last = [op |-> "init"]
  /\ issued = {}
  /\ inp \in {PList(l) : l \in SubjectLists} \cup {PStr(t) : t \in PlainTexts}
  /\ out = [stage |-> "input"]

\* generate_hall_ticket_pdf on the record as given.
RenderSubjects ==
  /\ out.stage = "input"
  /\ out' = [stage |-> "rendered", first |-> subject_entries(inp)]
  /\ UNCHANGED <<file, docs, last, issued, inp>>

\* The record saved by to_csv and read back: the cell holds str(subjects).
ReloadSubjects ==
  /\ out.stage = "rendered"
  /\ inp.kind = "list"
  /\ out' = [stage |-> "reloaded", first |-> out.first, cell |-> PStr(PyRepr(inp))]
  /\ UNCHANGED <<file, docs, last, issued, inp>>

\* generate_hall_ticket_pdf on the reloaded row.
RenderReloaded ==
  /\ out.stage = "reloaded"
  /\ out' = [stage |-> "rerendered", first |-> out.first, cell |-> out.cell,
             second |-> subject_entries(out.cell)]
  /\ UNCHANGED <<file, docs, last, issued, inp>>

NextSubjects == RenderSubjects \/ ReloadSubjects \/ RenderReloaded

SpecSubjects == InitSubjects /\ [][NextSubjects]_vars

(***************************************************************************)
(* The renderer on its own: one record from the form, rendered as           *)
(* submitted and again as the row read back from the store                  *)
(***************************************************************************)
MaxRows == 18

MaxNameLen == 42

\* A name of n characters, no two neighbours alike.
LongName(n) == [i \in 1..n |-> DigitChars[(i % 10) + 1]]

\* Name lengths around the limit, and the empty name.
NameLens == {0} \cup {n \in 0..MaxNameLen : n + 6 >= MaxNameLen}

\* The range of the form's "Number of Subjects" input.
MinFormSubjects == 1

MaxFormSubjects == 10

\* The list built by lines 533-549 for n subjects; the store, a file that
\* other programs can write, may hold a list of any length.
FormSubjects(n, len) ==
  PList([i \in 1..n |-> Subject(<<"C">> \o IntToText(i), LongName(len), <<"0", "1">>)])

RenderFails ==
  {RenderOk,
   [RenderOk EXCEPT !.qr_gen = TRUE],
   [RenderOk EXCEPT !.qr_save = TRUE],
   [RenderOk EXCEPT !.embed = TRUE],
   [RenderOk EXCEPT !.pdf_save = TRUE],
   [RenderOk EXCEPT !.remove = TRUE],
   [RenderOk EXCEPT !.embed = TRUE, !.pdf_save = TRUE]}

RenderTicket == <<"A", "B", "1", "2", "C", "D", "3", "4">>

InitRender ==
  /\ file = Absent
  /\ docs = {}
  /\ last = [op |-> "init"]
  /\ issued = {}
  /\ inp \in [student_data : {FormRecord(<<"A">>, r, RenderTicket) : r \in Rolls},
              subjects : {FormSubjects(n, len) : n \in 0..MaxRows, len \in NameLens},
              fails : RenderFails]
  /\ out = [stage |-> "input"]

\* The row of the record as load_database hands it to the view and the
\* lookup: typed by read_csv, the subjects cell holding str(subjects).
StoredRecord(student_data) ==
  read_csv(to_csv([cols |-> COLUMNS, rows |-> <<student_data>>])).rows[1]

Rendered(stage, subjects, r) ==
  /\ docs' = r.docs
  /\ out' = [stage |-> stage, subjects |-> subjects, entries |-> subject_entries(subjects),
             path |-> r.path, raised |-> r.raised, errors |-> r.errors,
             warnings |-> r.warnings, page |-> r.page]
  /\ UNCHANGED <<file, last, issued, inp>>

\* Line 587: the generate workflow renders the record it built.
RenderForm ==
  /\ out.stage = "input"
  /\ Len(inp.subjects.items) \in MinFormSubjects..MaxFormSubjects
  /\ Rendered("form", inp.subjects,
              render(docs, inp.student_data, inp.subjects, inp.fails))

\* Lines 370 and 712: the lookup and the view render a row of the store.
RenderStored ==
  /\ out.stage \in {"input", "form"}
  /\ Rendered("stored", PStr(PyRepr(inp.subjects)),
              render(docs, StoredRecord(inp.student_data),
                     PStr(PyRepr(inp.subjects)), inp.fails))

NextRender == RenderForm \/ RenderStored

SpecRender == InitRender /\ [][NextRender]_vars

(***************************************************************************)
(* Concurrent sessions on the one backing file.  Each session runs the      *)
(* script on its own; load_database and the to_csv that follows it are      *)
(* separate accesses to the file, and nothing in the code locks it.         *)
(***************************************************************************)
Sessions == {1, 2}

MaxOps == 2

\* The ids handed out by uuid4, in the order they are drawn.
RaceTickets ==
  <<(<<"T", "1">>), (<<"T", "2">>), (<<"T", "3">>), (<<"T", "4">>)>>

Idle == [pc |-> "idle"]

InitRace ==
  /\ file = Absent
  /\ docs = {}
  /\ last = [op |-> "init"]
  /\ issued = {}
  /\ inp = [s \in Sessions |-> <<>>]
  /\ out = [s \in Sessions |-> Idle]

\* Session s submits the generate form (lines 557-581): save_to_database
\* is entered.
BeginUpsert(s, roll_number) ==
  /\ out[s].pc = "idle"
  /\ Len(inp[s]) < MaxOps
  /\ Cardinality(issued) < Len(RaceTickets)
  /\ issued' = issued \cup {RaceTickets[Cardinality(issued) + 1]}
  /\ out' = [out EXCEPT ![s] =
               [pc |-> "called", kind |-> "upsert",
                student_data |-> FormRecord(<<"A">>, roll_number,
                                            RaceTickets[Cardinality(issued) + 1])]]
  /\ UNCHANGED <<file, docs, last, inp>>

\* Session s presses the delete button of row i of the view it is shown
\* (lines 719-720): delete_from_database is entered with the row's values.
BeginDelete(s, i) ==
  /\ out[s].pc = "idle"
  /\ Len(inp[s]) < MaxOps
  /\ file.exists
  /\ i \in 1..Len(file.rows)
  /\ out' = [out EXCEPT ![s] =
               [pc |-> "called", kind |-> "delete",
                roll_number |-> read_csv(file).rows[i].roll_number,
                hall_ticket_id |-> read_csv(file).rows[i].hall_ticket_id]]
  /\ UNCHANGED <<file, docs, last, issued, inp>>

\* df = load_database() inside the operation (lines 51 and 69).
Loaded(s, ld) ==
  /\ file' = ld.file
  /\ out' = [out EXCEPT ![s] = [pc |-> "loaded", df |-> ld.df] @@ out[s]]
  /\ UNCHANGED <<docs, last, issued, inp>>

Load(s) ==
  /\ out[s].pc = "called"
  /\ Loaded(s, load_database(file, NoFail))

\* Mutant: the rewrite computed from the file as it is now.
rewrite_from_file(df, f, student_data) == save_to_database(f, student_data, NoFail)

\* Lines 54-60 on the frame loaded earlier: what to_csv writes does not
\* depend on what the file holds by now.
rewrite_from_snapshot(df, f, student_data) ==
  save_to_database(to_csv(df), student_data, NoFail)

Stored(s, entry, f, d) ==
  /\ file' = f
  /\ docs' = d
  /\ inp' = [inp EXCEPT ![s] = Append(@, entry)]
  /\ out' = [out EXCEPT ![s] = Idle]
  /\ UNCHANGED <<last, issued>>

\* df.to_csv(db_path) of the upsert, and its return.
StoreUpsert(s, sv) ==
  Stored(s, [kind |-> "upsert", student_data |-> out[s].student_data,
             df |-> out[s].df, before |-> file, ret |-> sv.ret],
         sv.file, docs)

\* df.to_csv(db_path) of the delete, the removal of the document, and the
\* return.
StoreDelete(s, del) ==
  Stored(s, [kind |-> "delete", roll_number |-> out[s].roll_number,
             hall_ticket_id |-> out[s].hall_ticket_id,
             df |-> out[s].df, before |-> file,
             had_doc |-> PdfName(out[s].roll_number, out[s].hall_ticket_id) \in docs,
             after |-> del.file, docs_after |-> del.docs,
             ret |-> del.ret, errors |-> del.errors],
         del.file, del.docs)

Store(s) ==
  /\ out[s].pc = "loaded"
  /\ \/ /\ out[s].kind = "upsert"
        /\ StoreUpsert(s, rewrite_from_snapshot(out[s].df, file, out[s].student_data))
     \/ /\ out[s].kind = "delete"
        /\ StoreDelete(s, delete_from_database(to_csv(out[s].df), docs,
                                               out[s].roll_number,
                                               out[s].hall_ticket_id, NoFail))

NextRace ==
  \/ \E s \in Sessions, r \in Rolls : BeginUpsert(s, r)
  \/ \E s \in Sessions, i \in 1..Len(RaceTickets) : BeginDelete(s, i)
  \/ \E s \in Sessions : Load(s)
  \/ \E s \in Sessions : Store(s)

SpecRace == InitRace /\ [][NextRace]_vars

(***************************************************************************)
(* Properties of the record store                                           *)
(***************************************************************************)
Reported(msg) == \E k \in 1..Len(last.errors) : last.errors[k] = msg

RowsWithout(rows, roll_number) ==
  LET other(r) == r.roll_number # roll_number
  IN  SelectSeq(rows, other)

RowsExcept(rows, roll_number, hall_ticket_id) ==
  LET other(r) == r.roll_number # roll_number \/ r.hall_ticket_id # hall_ticket_id
  IN  SelectSeq(rows, other)

\* C1: the backing file never holds two rows with the same roll_number.
C1_OneRowPerRollNumber ==
  \A i, j \in 1..Len(file.rows) :
    i # j => file.rows[i].roll_number # file.rows[j].roll_number

\* C2: a successful upsert of r leaves the rows with another roll number, in
\* order and unchanged, followed by r.
C2_UpsertReplaces ==
  [][(last'.op = "generate" /\ last'.ret)
       => file'.rows = Append(RowsWithout(file.rows, last'.rec.roll_number),
                              last'.rec)]_vars

\* C3: a successful delete(R, T) removes exactly the rows with roll number R
\* and ticket id T; every other row survives, in order and unchanged.
C3_DeletePrecise ==
  [][(last'.op = "delete" /\ last'.ret)
       => file'.rows = RowsExcept(file.rows, PyStr(last'.roll_number),
                                  PyStr(last'.hall_ticket_id))]_vars

\* C16: once the delete button under a generated hall ticket has been
\* pressed, the store holds no row for that ticket's (roll number, id).
C16_GeneratedTicketDeleted ==
  last.op = "delete_generated" =>
    \A i \in 1..Len(file.rows) :
      ~(/\ file.rows[i].roll_number = last.roll_number
        /\ file.rows[i].hall_ticket_id = last.hall_ticket_id)

\* C7: the payload of a stored record, submitted to the lookup workflow,
\* finds that record.
C7_LookupFindsStoredRecord ==
  last.op = "lookup" =>
    \A i \in 1..Len(file.rows) :
      last.qr_data = create_scannable_qr_data(Str(file.rows[i].hall_ticket_id),
                                              Str(file.rows[i].roll_number))
        => last.outcome = "found" /\ last.found = <<file.rows[i]>>

\* C8: an upsert or delete during which an I/O step fails does not raise,
\* returns failure and leaves the stored rows as they were.
C8_FailureIsNoOp ==
  [][(last'.op \in {"generate", "delete"} /\ last'.errors # <<>>)
       => ~last'.raised /\ ~last'.ret /\ file'.rows = file.rows]_vars

\* C9: load_database never raises; an absent backing file is created empty
\* with the nine columns and zero rows are returned; when the read (or the
\* creation) fails, zero rows with the nine columns are returned and the
\* error is reported.
C9_LoadNeverRaises ==
  last.op = "load" =>
    /\ ~last.raised
    /\ last.df.cols = COLUMNS
    /\ (last.was_absent /\ ~last.io.write)
         => /\ file = [exists |-> TRUE, cols |-> COLUMNS, rows |-> <<>>]
            /\ last.df.rows = <<>>
            /\ last.errors = <<>>
    /\ (last.was_absent /\ last.io.write)
         => /\ ~file.exists
            /\ last.df.rows = <<>>
            /\ last.errors = <<"Error loading database">>
    /\ (~last.was_absent /\ last.io.read)
         => /\ last.df.rows = <<>>
            /\ last.errors = <<"Error loading database">>
    /\ (~last.was_absent /\ ~last.io.read)
         => /\ Len(last.df.rows) = Len(file.rows)
            /\ last.errors = <<>>

\* A non-empty store whose read failed.
C9_Witness ==
  /\ last.op = "load"
  /\ ~last.was_absent
  /\ last.io.read
  /\ Len(file.rows) > 0
  /\ last.df.rows = <<>>

(***************************************************************************)
(* Properties of the codec                                                  *)
(***************************************************************************)
NoColon(t) == Count(t, Colon) = 0

\* C5: a pair without colons, encoded and then decoded, comes back as it was.
C5_RoundTrip ==
  (out.stage = "decoded" /\ NoColon(inp.hall_ticket_id) /\ NoColon(inp.roll_number))
    => /\ out.parsed.valid
       /\ out.parsed.hall_ticket_id = inp.hall_ticket_id
       /\ out.parsed.roll_number = inp.roll_number

C5_Witness ==
  /\ out.stage = "decoded"
  /\ inp.hall_ticket_id = <<"A", "7">>
  /\ inp.roll_number = <<"7", "A">>
  /\ out.parsed.valid

FirstColon(t) == CHOOSE j \in 1..Len(t) : t[j] = Colon /\ \A m \in 1..(j - 1) : t[m] # Colon

\* C6 as stated: every token with at least one colon is cut at its first colon.
C6_SplitOnFirstColon ==
  (out.stage = "decoded" /\ Count(out.qr_data, Colon) >= 1)
    => /\ out.parsed.valid
       /\ out.parsed.hall_ticket_id = SubSeq(out.qr_data, 1, FirstColon(out.qr_data) - 1)
       /\ out.parsed.roll_number =
            SubSeq(out.qr_data, FirstColon(out.qr_data) + 1, Len(out.qr_data))

\* C6 amended: a token with exactly one colon decodes to the text before and
\* the text after it; a token with two or more colons is rejected as invalid
\* and the form's own fields are kept.
C6_SplitOnEveryColon ==
  out.stage = "decoded" =>
    /\ Count(out.qr_data, Colon) = 1
         => /\ out.parsed.valid
            /\ out.parsed.hall_ticket_id =
                 SubSeq(out.qr_data, 1, FirstColon(out.qr_data) - 1)
            /\ out.parsed.roll_number =
                 SubSeq(out.qr_data, FirstColon(out.qr_data) + 1, Len(out.qr_data))
    /\ Count(out.qr_data, Colon) >= 2
         => /\ ~out.parsed.valid
            /\ out.parsed.errors = <<"Invalid QR code data">>
            /\ out.parsed.hall_ticket_id = <<>>
            /\ out.parsed.roll_number = <<>>

\* A token with two colons was decoded.
C6_Witness ==
  /\ out.stage = "decoded"
  /\ Count(out.qr_data, Colon) = 2
  /\ ~out.parsed.valid

(***************************************************************************)
(* Properties of the subject normalization                                  *)
(***************************************************************************)
\* The non-empty comma-separated items of a plain text, blanks stripped.
PlainItems(t) ==
  LET parts == Split(t, ",")
      nonempty(x) == Strip(x) # <<>>
      kept == SelectSeq(parts, nonempty)
  IN  [i \in 1..Len(kept) |-> [row |-> "bare", text |-> Strip(kept[i])]]

\* C10: every form normalizes to a sequence of entries; a literal list and
\* its serialized text give the same entries; a plain comma-separated text
\* gives one bare entry per non-empty item, in order.
C10_SubjectsNormalized ==
  /\ out.stage \in {"rendered", "reloaded", "rerendered"} => out.first.ok
  /\ out.stage = "rerendered" => out.second.ok /\ out.second.entries = out.first.entries
  /\ (out.stage = "rendered" /\ inp.kind = "str")
       => out.first.entries = PlainItems(inp.v)

(***************************************************************************)
(* Properties of the renderer                                               *)
(***************************************************************************)
RenderReturned == out.stage \in {"form", "stored"}

DocumentReturned == RenderReturned /\ out.path # NoDocument

\* The name typed into the form for subject k.
TypedName(k) == DictGet(inp.subjects.items[k], <<"n", "a", "m", "e">>).v

TypedCode(k) == DictGet(inp.subjects.items[k], <<"c", "o", "d", "e">>)

\* C11: every drawn {code, name, date} row shows the typed name unchanged
\* when it has at most 40 characters, and its first 37 characters followed
\* by "..." when it has more; no drawn name is longer than 40 characters.
C11_NameTruncated ==
  DocumentReturned =>
    \A k \in 1..Len(out.page[1].rows) :
      /\ out.page[1].rows[k].row = "dict"
      /\ Len(TypedName(k)) <= 40 => out.page[1].rows[k].name = TypedName(k)
      /\ Len(TypedName(k)) > 40 =>
           out.page[1].rows[k].name = SubSeq(TypedName(k), 1, 37) \o <<".", ".", ".">>
      /\ Len(out.page[1].rows[k].name) <= 40

C11_Witness ==
  /\ DocumentReturned
  /\ out.stage = "stored"
  /\ Len(out.page[1].rows) >= 2
  /\ Len(TypedName(2)) = 41
  /\ Len(out.page[1].rows[2].name) = 40

\* C12: render never raises; a failed embedding of the code image leaves
\* a document without the image and a warning; any other failure returns
\* no document and reports the error.
C12_RenderNeverRaises ==
  RenderReturned =>
    /\ ~out.raised
    /\ inp.fails.embed /\ ~inp.fails.qr_save /\ ~inp.fails.pdf_save =>
         /\ out.path # NoDocument
         /\ out.path \in docs
         /\ ~out.page[1].qr
         /\ out.warnings = <<"Could not add QR code to PDF">>
    /\ inp.fails.qr_save \/ inp.fails.pdf_save =>
         /\ out.path = NoDocument
         /\ \E i \in 1..Len(out.errors) : out.errors[i] = "Error generating PDF"
    /\ ~inp.fails.embed => out.warnings = <<>>
    /\ out.path # NoDocument /\ ~inp.fails.embed => out.page[1].qr

C12_Witness ==
  /\ out.stage = "stored"
  /\ inp.fails.embed
  /\ out.path \in docs
  /\ ~out.page[1].qr
  /\ out.warnings # <<>>

\* C14: once render has returned, with or without a document, the code
\* image it wrote to TEMP_DIR is gone.
C14_CodeImageRemoved ==
  RenderReturned => QrName(inp.student_data.roll_number) \notin docs

\* C15: rows are drawn in list order until the position after a row is
\* below 6 cm; the drawn rows are a prefix of the list on a single page, the
\* instructions, signature lines and footer follow, and the document is
\* returned with no error.
C15_CutOffAtSixCentimetres ==
  RenderReturned /\ inp.fails = RenderOk =>
    /\ out.path # NoDocument
    /\ out.errors = <<>>
    /\ out.page[1].pages = 1
    /\ Len(out.page[1].rows) <= Len(inp.subjects.items)
    /\ \A k \in 1..Len(out.page[1].rows) :
         /\ out.page[1].rows[k].code = TypedCode(k)
         /\ k < Len(out.page[1].rows) => out.page[1].rows[k].y - 7 >= 60
    /\ Len(out.page[1].rows) < Len(inp.subjects.items) =>
         out.page[1].rows[Len(out.page[1].rows)].y - 7 < 60
    /\ Len(out.page[1].instructions) = 5
    /\ out.page[1].signatures = 40
    /\ out.page[1].footer

C15_Witness ==
  /\ out.stage = "stored"
  /\ inp.fails = RenderOk
  /\ out.path \in docs
  /\ Len(out.page[1].rows) < Len(inp.subjects.items)
  /\ Len(out.page[1].instructions) = 5

\* C18: with 1 to 10 subjects every subject is drawn, the position never
\* falls below 6 cm, and the last instruction line lies above the signature
\* lines at 4 cm.
C18_TenSubjectsFit ==
  DocumentReturned /\ Len(inp.subjects.items) \in 1..10 =>
    /\ Len(out.page[1].rows) = Len(inp.subjects.items)
    /\ \A k \in 1..Len(out.page[1].rows) : out.page[1].rows[k].y - 7 >= 60
    /\ out.page[1].instructions[5] > 40

C18_Witness ==
  /\ DocumentReturned
  /\ out.stage = "stored"
  /\ Len(inp.subjects.items) = 10
  /\ Len(out.page[1].rows) = 10
  /\ out.page[1].instructions[5] = 67

(***************************************************************************)
(* Properties of concurrent sessions                                        *)
(***************************************************************************)
\* The line of the file that holds a record.
RowOf(student_data) ==
  TextRecord(PyStr(student_data.name), PyStr(student_data.roll_number),
             PyStr(student_data.hall_ticket_id))

\* Sessions s and t each ran one upsert, for different roll numbers, both
\* loaded the empty store, and t wrote after s.
BothLoadedThenStored(s, t) ==
  /\ s # t
  /\ out[s] = Idle /\ out[t] = Idle
  /\ Len(inp[s]) = 1 /\ Len(inp[t]) = 1
  /\ inp[s][1].kind = "upsert" /\ inp[t][1].kind = "upsert"
  /\ inp[s][1].student_data.roll_number # inp[t][1].student_data.roll_number
  /\ inp[s][1].df.rows = <<>> /\ inp[t][1].df.rows = <<>>
  /\ inp[s][1].before.rows = <<>>
  /\ inp[t][1].before.rows = <<RowOf(inp[s][1].student_data)>>

\* C13: when two sessions upsert different roll numbers and both load the
\* store before either rewrites it, both report success and the store ends
\* with the row of the later writer only.
C13_LastWriterWins ==
  \A s, t \in Sessions :
    BothLoadedThenStored(s, t) =>
      /\ inp[s][1].ret /\ inp[t][1].ret
      /\ file.rows = <<RowOf(inp[t][1].student_data)>>

C13_Witness ==
  \E s, t \in Sessions :
    /\ BothLoadedThenStored(s, t)
    /\ inp[s][1].ret /\ inp[t][1].ret
    /\ Len(file.rows) = 1
    /\ file.rows[1].roll_number = PyStr(inp[t][1].student_data.roll_number)
    /\ file.rows[1].roll_number # PyStr(inp[s][1].student_data.roll_number)

\* C4: after a successful delete(R, T) the file it wrote holds no row for
\* (R, T) and the document of (R, T) does not exist; with the document
\* already absent the delete succeeds without reporting an error.
C4_DeleteRemovesRowAndDocument ==
  \A s \in Sessions :
    \A k \in 1..Len(inp[s]) :
      inp[s][k].kind = "delete" =>
        /\ inp[s][k].ret =>
             /\ \A i \in 1..Len(inp[s][k].after.rows) :
                  ~(/\ inp[s][k].after.rows[i].roll_number
                         = PyStr(inp[s][k].roll_number)
                    /\ inp[s][k].after.rows[i].hall_ticket_id
                         = PyStr(inp[s][k].hall_ticket_id))
             /\ PdfName(inp[s][k].roll_number, inp[s][k].hall_ticket_id)
                  \notin inp[s][k].docs_after
        /\ ~inp[s][k].had_doc => inp[s][k].ret /\ inp[s][k].errors = <<>>

\* C17: whatever the interleaving of upserts and deletes, the backing file
\* never holds two rows with the same roll number.
C17_OneRowPerRollNumberConcurrent ==
  \A i, j \in 1..Len(file.rows) :
    file.rows[i].roll_number = file.rows[j].roll_number => i = j

====
